---------------------------- MODULE Spec2Model ----------------------------
(***************************************************************************)
(* Document renderer scripts (scripts/generate_*.py): the text layout      *)
(* engine draw_wrapped / draw_text_block and the straight-line render      *)
(* pipeline of each script's main(), and the pipeline of                   *)
(* build_schwarzatal_map.plot_map.                                         *)
(*                                                                         *)
(* Strings are sequences of one-character strings.  The alphabet of the    *)
(* model is two letters, the hyphen, the space and the newline; digits and *)
(* punctuation (which textwrap's word-separator regex treats specially)    *)
(* are outside the model.  Pixel products that the code evaluates in       *)
(* binary64 are evaluated exactly here; the fonts, widths and spacings the *)
(* model draws are ones for which both evaluations agree.                  *)
(***************************************************************************)
EXTENDS Integers, Sequences, FiniteSets, TLC

(***************************************************************************)
(* Bounds of the model.                                                    *)
(***************************************************************************)
MaxTokens == 4

\* lines of the longest body text, enough to run past the footer
MaxLines == 51

\* noise generator calls in one run
MaxCalls == 3

(***************************************************************************)
(* Characters.                                                             *)
(***************************************************************************)
Letters == {"a", "b"}
Hyphen == "-"
Space == " "
Newline == "\n"

IsLetter(s, i) == i >= 1 /\ i <= Len(s) /\ s[i] \in Letters
IsHyphen(s, i) == i >= 1 /\ i <= Len(s) /\ s[i] = Hyphen
IsSpace(s, i) == i >= 1 /\ i <= Len(s) /\ s[i] = Space

Max(a, b) == IF a >= b THEN a ELSE b
Min(a, b) == IF a <= b THEN a ELSE b

\* str.strip() == "": every character is whitespace
IsBlank(s) == \A i \in 1..Len(s) : s[i] = Space

RECURSIVE Concat(_)
Concat(ss) == IF ss = <<>> THEN <<>> ELSE Head(ss) \o Concat(Tail(ss))

\* faulty variant: empty paragraphs collapsed, as text.split() or splitlines with
\* a filter would
SplitLinesCollapsed(s) ==
    LET nl == {i \in 0..(Len(s) + 1) : i = 0 \/ i = Len(s) + 1 \/ s[i] = Newline}
        starts == {i \in nl : i <= Len(s) /\ (i + 1) \notin nl}
        n == Cardinality(starts)
        start(k) == CHOOSE i \in starts : Cardinality({j \in starts : j < i}) = k - 1
        stop(i) == CHOOSE j \in nl : j > i /\ \A m \in nl : m > i => j <= m
    IN [k \in 1..n |-> SubSeq(s, start(k) + 1, stop(start(k)) - 1)]

(***************************************************************************)
(* text.split("\n"): the paragraphs of a text; "" gives one empty          *)
(* paragraph, and a trailing newline gives a trailing empty paragraph.     *)
(***************************************************************************)
SplitLines(s) ==
    LET nl == {i \in 1..Len(s) : s[i] = Newline}
        n == Cardinality(nl)
        \* position of the k-th newline; 0 before the text, Len(s)+1 after it
        pos(k) == IF k = 0 THEN 0
                  ELSE IF k = n + 1 THEN Len(s) + 1
                  ELSE CHOOSE i \in nl : Cardinality({j \in nl : j < i}) = k - 1
    IN [k \in 1..(n + 1) |-> SubSeq(s, pos(k - 1) + 1, pos(k) - 1)]

(***************************************************************************)
(* textwrap.TextWrapper._split with break_on_hyphens=True (the default):   *)
(* the chunks of a paragraph under wordsep_re.                             *)
(***************************************************************************)
\* smallest element of a non-empty set of integers
Least(S) == CHOOSE i \in S : \A j \in S : i <= j

\* first index after the run of spaces / hyphens starting at p
SpaceRunEnd(s, p) == Least({q \in p..(Len(s) + 1) : ~IsSpace(s, q)})

HyphenRunEnd(s, p) == Least({q \in p..(Len(s) + 1) : ~IsHyphen(s, q)})

\* -{2,} (?=\w) starting at p
DashesThenWord(s, p) ==
    LET q == HyphenRunEnd(s, p) IN q - p >= 2 /\ IsLetter(s, q)

\* (?<=[\w...]) -{2,} (?=\w): an em-dash between words starts at p
EmDashAt(s, p) == IsLetter(s, p - 1) /\ DashesThenWord(s, p)

\* the hyphen at e ends a hyphenated-word chunk:
\* -(?: (?<=lt{2}-) | (?<=lt-lt-)) (?= lt -? lt)
HyphenBreakAt(s, e) ==
    /\ IsHyphen(s, e)
    /\ \/ IsLetter(s, e - 2) /\ IsLetter(s, e - 1)
       \/ IsLetter(s, e - 3) /\ IsHyphen(s, e - 2) /\ IsLetter(s, e - 1)
    /\ IsLetter(s, e + 1)
    /\ \/ IsLetter(s, e + 2)
       \/ IsHyphen(s, e + 2) /\ IsLetter(s, e + 3)

\* faulty variant: the lazy match never extended, every character its own chunk
WordEndOne(s, p) == p

\* [^ws]+? followed by the first of: hyphenated word, end of word, em-dash.
\* The lazy match stops before the first index e at which one of them
\* applies; the result is the first index after the chunk.
WordStopAt(s, e) ==
    \/ HyphenBreakAt(s, e)
    \/ e > Len(s)
    \/ IsSpace(s, e)
    \/ IsLetter(s, e - 1) /\ DashesThenWord(s, e)

WordEnd(s, p) ==
    LET e == Least({q \in p..(Len(s) + 1) : WordStopAt(s, q)})
    IN IF HyphenBreakAt(s, e) THEN e + 1 ELSE e

ChunkEnd(s, p) ==
    IF IsSpace(s, p) THEN SpaceRunEnd(s, p)
    ELSE IF EmDashAt(s, p) THEN HyphenRunEnd(s, p)
    ELSE WordEnd(s, p + 1)

RECURSIVE ChunksFrom(_, _)
ChunksFrom(s, p) ==
    IF p > Len(s) THEN <<>>
    ELSE LET q == ChunkEnd(s, p)
         IN <<SubSeq(s, p, q - 1)>> \o ChunksFrom(s, q)

SplitChunks(s) == ChunksFrom(s, 1)

(***************************************************************************)
(* textwrap.TextWrapper._wrap_chunks / _handle_long_word with the defaults *)
(* break_long_words=True, drop_whitespace=True, no indents, no max_lines.  *)
(***************************************************************************)
\* inner while: move chunks onto the current line while they fit.
\* Result: <<chunks of the line, length of the line, remaining chunks>>
RECURSIVE FillLine(_, _, _, _)
FillLine(cur, curLen, rest, width) ==
    IF rest # <<>> /\ curLen + Len(Head(rest)) <= width
    THEN FillLine(Append(cur, Head(rest)), curLen + Len(Head(rest)), Tail(rest), width)
    ELSE <<cur, curLen, rest>>

\* chunk.rfind('-', 0, spaceLeft), as a 1-based position (0: not found)
LastHyphen(chunk, spaceLeft) ==
    LET hs == {i \in 1..Min(spaceLeft, Len(chunk)) : chunk[i] = Hyphen}
    IN IF hs = {} THEN 0 ELSE CHOOSE i \in hs : \A j \in hs : j <= i

\* _handle_long_word: how many characters of the too-long chunk go onto
\* the current line
LongWordCut(chunk, curLen, width) ==
    LET spaceLeft == IF width < 1 THEN 1 ELSE width - curLen
        h == LastHyphen(chunk, spaceLeft)
    IN IF Len(chunk) > spaceLeft /\ h > 1 /\ (\E i \in 1..(h - 1) : chunk[i] # Hyphen)
       THEN h
       ELSE spaceLeft

\* faulty variant: break_long_words=False, the too-long chunk kept whole on a line
\* of its own
HandleLongWordUnbroken(cur, curLen, rest, width) ==
    IF cur = <<>> THEN <<<<Head(rest)>>, Tail(rest)>> ELSE <<cur, rest>>

\* _handle_long_word with break_long_words=True.
\* Result: <<chunks of the line, remaining chunks>>
HandleLongWord(cur, curLen, rest, width) ==
    LET chunk == Head(rest)
        end == LongWordCut(chunk, curLen, width)
    IN <<Append(cur, SubSeq(chunk, 1, end)),
         <<SubSeq(chunk, end + 1, Len(chunk))>> \o Tail(rest)>>

DropLast(ss) == SubSeq(ss, 1, Len(ss) - 1)

\* faulty variant: a chunk exactly as long as the line taken for too long
TooLongOrFull(chunk, width) == Len(chunk) >= width

\* len(chunks[-1]) > width: the chunk fits on no line
TooLong(chunk, width) == Len(chunk) > width

RECURSIVE WrapChunks(_, _, _)
WrapChunks(chunks, lines, width) ==
    IF chunks = <<>> THEN lines
    ELSE LET c0 == IF IsBlank(Head(chunks)) /\ lines # <<>> THEN Tail(chunks) ELSE chunks
             f == FillLine(<<>>, 0, c0, width)
             long == f[3] # <<>> /\ TooLong(Head(f[3]), width)
             g == IF long THEN HandleLongWord(f[1], f[2], f[3], width)
                  ELSE <<f[1], f[3]>>
             cur == IF g[1] # <<>> /\ IsBlank(g[1][Len(g[1])]) THEN DropLast(g[1]) ELSE g[1]
         IN WrapChunks(g[2], IF cur # <<>> THEN Append(lines, Concat(cur)) ELSE lines, width)

\* textwrap.wrap(para, width=cols)
Wrap(para, cols) == WrapChunks(SplitChunks(para), <<>>, cols)

(***************************************************************************)
(* Column budget and line advance.                                         *)
(***************************************************************************)
\* a font as the layout engine sees it: font.size and
\* font.getlength("ABC...xyz") of the 52-character reference alphabet
RefChars == 52
MinCols == 20

\* avg = max(getlength(alphabet) / 52.0, 1), as the fraction num/den
AvgNum(font) == IF font.ref >= RefChars THEN font.ref ELSE 1
AvgDen(font) == IF font.ref >= RefChars THEN RefChars ELSE 1

\* faulty variant: the floor of 20 columns forgotten
ColsOfNoFloor(font, maxWidthPx) == (maxWidthPx * AvgDen(font)) \div AvgNum(font)

\* cols = max(int(max_width_px / avg), 20)
ColsOf(font, maxWidthPx) ==
    Max((maxWidthPx * AvgDen(font)) \div AvgNum(font), MinCols)

\* faulty variant: the product rounded to the nearest pixel instead of truncated
AdvanceWrappedRounded(font, ratio) == (font.size * (100 + ratio) + 50) \div 100

\* faulty variant: the ratio applied without the base line height
AdvanceWrappedNoBase(font, ratio) == (font.size * ratio) \div 100

\* draw_wrapped: y += int(font.size * (1.0 + line_spacing));
\* the ratio is given in hundredths
AdvanceWrapped(font, ratio) == (font.size * (100 + ratio)) \div 100

\* draw_text_block: y += int(font.size * 1.2) + line_spacing  (pixels)
AdvanceBlock(font, spacingPx) == (font.size * 120) \div 100 + spacingPx

(***************************************************************************)
(* The scripts and the statements of their main(), in program order.       *)
(* op: what the statement does to a canvas; at: the pixel row of a drawing *)
(* statement, absolute (int(H * fraction)) or, with rel, an offset from    *)
(* the y the layout engine returned.                                       *)
(***************************************************************************)
Scripts == {"altes", "telegramm", "historisch", "template", "map"}

St(op, name, canvas, rel, at) ==
    [op |-> op, name |-> name, canvas |-> canvas, rel |-> rel, at |-> at]

\* faulty variant: the PNG written before the footer is drawn
PlanAltesSaveBeforeFooter ==
    << St("mkdir", "ensure_dir", "disk", FALSE, 0),
       St("alloc", "base", "page", FALSE, 0),
       St("noise", "noise", "page", FALSE, 0),
       St("vignette", "vignette", "page", FALSE, 0),
       St("fold", "fold lines", "page", FALSE, 1169),
       St("text", "title", "page", FALSE, 280),
       St("rule", "Zierlinie", "page", FALSE, 491),
       St("text", "subtitle", "page", FALSE, 561),
       St("body", "body", "page", FALSE, 771),
       St("rule", "signature line", "page", TRUE, 60),
       St("text", "signature 1", "page", TRUE, 78),
       St("text", "signature 2", "page", TRUE, 112),
       St("save", "altes_dokument_a4.png", "page", FALSE, 0),
       St("text", "footer", "page", FALSE, 3332),
       St("save", "altes_dokument_a4.jpg", "page", FALSE, 0) >>

PlanAltes ==
    << St("mkdir", "ensure_dir", "disk", FALSE, 0),
       St("alloc", "base", "page", FALSE, 0),
       St("noise", "noise", "page", FALSE, 0),
       St("vignette", "vignette", "page", FALSE, 0),
       St("fold", "fold lines", "page", FALSE, 1169),
       St("text", "title", "page", FALSE, 280),
       St("rule", "Zierlinie", "page", FALSE, 491),
       St("text", "subtitle", "page", FALSE, 561),
       St("body", "body", "page", FALSE, 771),
       St("rule", "signature line", "page", TRUE, 60),
       St("text", "signature 1", "page", TRUE, 78),
       St("text", "signature 2", "page", TRUE, 112),
       St("text", "footer", "page", FALSE, 3332),
       St("save", "altes_dokument_a4.png", "page", FALSE, 0),
       St("save", "altes_dokument_a4.jpg", "page", FALSE, 0) >>

PlanTelegramm ==
    << St("mkdir", "ensure_dir", "disk", FALSE, 0),
       St("alloc", "base", "page", FALSE, 0),
       St("noise", "noise", "page", FALSE, 0),
       St("vignette", "vignette", "page", FALSE, 0),
       St("text", "title", "page", FALSE, 263),
       St("rule", "header rule", "page", FALSE, 456),
       St("text", "meta", "page", FALSE, 508),
       St("body", "body", "page", FALSE, 666),
       St("text", "footer", "page", FALSE, 3332),
       St("save", "telegramm_zusammenfassung_a4.png", "page", FALSE, 0),
       St("save", "telegramm_zusammenfassung_a4.jpg", "page", FALSE, 0) >>

PlanHistorisch ==
    << St("mkdir", "ensure_dir", "disk", FALSE, 0),
       St("alloc", "base", "page", FALSE, 0),
       St("noise", "noise", "page", FALSE, 0),
       St("vignette", "vignette", "page", FALSE, 0),
       St("fold", "fold lines", "page", FALSE, 779),
       St("text", "header", "page", FALSE, 140),
       St("text", "meta left", "page", FALSE, 257),
       St("text", "meta right", "page", FALSE, 257),
       St("text", "subject", "page", FALSE, 350),
       St("body", "body", "page", FALSE, 444),
       St("rule", "signature line", "page", TRUE, 30),
       St("text", "signature name", "page", TRUE, 40),
       St("text", "signature rank", "page", TRUE, 80),
       St("text", "disclaimer", "page", FALSE, 2245),
       St("save", "historisch_inspiriertes_dokument.png", "page", FALSE, 0),
       St("save", "historisch_inspiriertes_dokument.jpg", "page", FALSE, 0) >>

\* faulty variant: the template PNG written before the placeholders are drawn
PlanTemplateSaveBeforeText ==
    << St("mkdir", "ensure_dir", "disk", FALSE, 0),
       St("alloc", "base", "page", FALSE, 0),
       St("noise", "noise", "page", FALSE, 0),
       St("vignette", "vignette", "page", FALSE, 0),
       St("spots", "spots", "page", FALSE, 62),
       St("save", "altes_dokument_a4_blank.png", "page", FALSE, 0),
       St("save", "altes_dokument_a4_blank.jpg", "page", FALSE, 0),
       St("copy", "base.copy()", "templ", FALSE, 0),
       St("rule", "guides", "templ", FALSE, 420),
       St("save", "altes_dokument_a4_template.png", "templ", FALSE, 0),
       St("text", "placeholders", "templ", FALSE, 280),
       St("save", "altes_dokument_a4_template.jpg", "templ", FALSE, 0) >>

PlanTemplate ==
    << St("mkdir", "ensure_dir", "disk", FALSE, 0),
       St("alloc", "base", "page", FALSE, 0),
       St("noise", "noise", "page", FALSE, 0),
       St("vignette", "vignette", "page", FALSE, 0),
       St("spots", "spots", "page", FALSE, 62),
       St("save", "altes_dokument_a4_blank.png", "page", FALSE, 0),
       St("save", "altes_dokument_a4_blank.jpg", "page", FALSE, 0),
       St("copy", "base.copy()", "templ", FALSE, 0),
       St("rule", "guides", "templ", FALSE, 420),
       St("text", "placeholders", "templ", FALSE, 280),
       St("save", "altes_dokument_a4_template.png", "templ", FALSE, 0),
       St("save", "altes_dokument_a4_template.jpg", "templ", FALSE, 0) >>

\* build_schwarzatal_map.plot_map: geocoding, figure, base map, four
\* optional overlays (each in its own try/except), ornaments, title, files
PlanMap ==
    << St("geocode", "geocode_bbox", "fig", FALSE, 0),
       St("alloc", "plt.subplots", "fig", FALSE, 0),
       St("zoom", "zoom", "fig", FALSE, 0),
       St("basemap", "Esri.WorldImagery", "fig", FALSE, 0),
       St("optional", "Esri.WorldHillshade", "fig", FALSE, 0),
       St("optional", "Esri.WorldTransportation", "fig", FALSE, 0),
       St("optional", "Esri.WorldTopoMap", "fig", FALSE, 0),
       St("optional", "CartoDB.PositronOnlyLabels", "fig", FALSE, 0),
       St("rule", "north arrow", "fig", FALSE, 0),
       St("rule", "scale bar", "fig", FALSE, 0),
       St("text", "suptitle", "fig", FALSE, 0),
       St("mkdir", "ensure_dirs", "disk", FALSE, 0),
       St("save", "schwarzatal_map.png", "fig", FALSE, 0),
       St("save", "schwarzatal_map.pdf", "fig", FALSE, 0) >>

Plan(sc) ==
    CASE sc = "altes" -> PlanAltes
      [] sc = "telegramm" -> PlanTelegramm
      [] sc = "historisch" -> PlanHistorisch
      [] sc = "template" -> PlanTemplate
      [] sc = "map" -> PlanMap

\* which layout engine the script's main() calls for its body
UsesTextBlock(sc) == sc = "historisch"

(***************************************************************************)
(* Inputs of the layout engine.                                            *)
(***************************************************************************)
TokShort == <<"a", "b">>
TokWordSp == [i \in 1..10 |-> IF i = 1 THEN "a" ELSE IF i = 10 THEN Space ELSE "b"]
TokLong == [i \in 1..21 |-> IF i <= 10 THEN "a" ELSE "b"]
TokHyph == <<"a", "b", Hyphen, "b", "a">>
Vocabulary == {TokShort, TokWordSp, TokLong, TokHyph, <<Space>>, <<Newline>>}

Texts == {Concat(ts) : ts \in UNION {[1..n -> Vocabulary] : n \in 0..MaxTokens}}

\* MaxLines short lines, one per paragraph
LongBody ==
    [i \in 1..(3 * MaxLines - 1) |->
        IF i % 3 = 0 THEN Newline ELSE IF i % 3 = 1 THEN "a" ELSE "b"]

SmallTexts ==
    { <<>>,
      LongBody,
      TokShort,
      TokShort \o <<Newline, Newline>> \o TokShort,
      TokWordSp \o TokWordSp \o TokWordSp \o TokLong }

Font(size, ref) == [size |-> size, ref |-> ref]
BodyFont == Font(44, 520)
Fonts == {BodyFont, Font(30, 390), Font(28, 364), Font(1, 26)}
Widths == {0, 30, 200, 230}
TextWidths == {200, 210, 230}
Ratios == {0, 20, 25}

In(text, font, maxWidthPx, ratio, spacingPx) ==
    [text |-> text, font |-> font, maxWidthPx |-> maxWidthPx,
     ratio |-> ratio, spacingPx |-> spacingPx]

NoInput == In(<<>>, Font(0, 0), 0, 0, 0)

\* what main() may pass to the layout engine: every text with the body
\* font, and a few texts with every font, width and spacing
LayoutInputs(sc) ==
    IF UsesTextBlock(sc)
    THEN {In(t, BodyFont, 230, 0, 6) : t \in Texts}
         \cup {In(t, f, w, 0, 6) : t \in SmallTexts, f \in Fonts, w \in Widths}
    ELSE IF sc = "altes"
    THEN {In(t, BodyFont, w, 20, 0) : t \in Texts, w \in TextWidths}
         \cup {In(t, f, w, r, 0) : t \in SmallTexts, f \in Fonts, w \in Widths, r \in Ratios}
    ELSE {In(t, f, w, r, 0) : t \in SmallTexts, f \in Fonts, w \in Widths, r \in Ratios}

(***************************************************************************)
(* build_schwarzatal_map: the Nominatim answer, the Web Mercator box and   *)
(* the zoom estimate.  Longitudes are in thousandths of a degree, lengths  *)
(* in whole metres.                                                        *)
(***************************************************************************)
Num(v) == [numeric |-> TRUE, val |-> v]

NotNum == [numeric |-> FALSE, val |-> 0]

\* Nominatim order: [south, north, west, east]
Box(west, east) == <<Num(50600), Num(50700), Num(west), Num(east)>>

Response(net, httpStatus, data) == [net |-> net, httpStatus |-> httpStatus, data |-> data]

Item(bb) == [boundingbox |-> bb]

\* a point, a district, the same district with west and east swapped, the
\* whole world
GoodBoxes == {Box(11000, 11000), Box(11100, 11200), Box(11200, 11100), Box(-180000, 180000)}

\* boundingbox missing or empty, too short, too long, not numeric
BadBoxes ==
    { <<>>,
      <<Num(50600), Num(50700), Num(11100)>>,
      <<Num(50600), Num(50700), Num(11100), Num(11200), Num(0)>>,
      <<Num(50600), Num(50700), NotNum, Num(11200)>> }

GeocodeResponses ==
    {Response("timeout", 0, <<>>), Response("ok", 503, <<>>), Response("ok", 200, <<>>)}
    \cup {Response("ok", 200, <<Item(bb)>>) : bb \in GoodBoxes \cup BadBoxes}

\* geocode_bbox: the exception it raises on this answer ("": it returns)
GeocodeError(resp) ==
    IF resp.net # "ok" THEN "ConnectionError"
    ELSE IF resp.httpStatus >= 400 THEN "HTTPError"
    ELSE IF resp.data = <<>> THEN "RuntimeError"
    ELSE LET bb == resp.data[1].boundingbox
         IN  IF bb = <<>> \/ Len(bb) # 4 THEN "RuntimeError"
             ELSE IF \E i \in 1..4 : ~bb[i].numeric THEN "ValueError"
             ELSE ""

\* R_EARTH * pi / 180 = 111319.49 m per degree, here 111319 m
MetresPerDegree == 111319

\* lonlat_to_webmercator, x only
lonlat_to_webmercator(lon) ==
    (lon \div 1000) * MetresPerDegree + ((lon % 1000) * MetresPerDegree) \div 1000

\* figure width in inches and dpi
Figures == {<<14, 300>>, <<0, 300>>, <<1, 1>>, <<14, 1>>}

Buffers == {-500, 0, 500}

\* bbox_wgs84_to_mercator and the optional buffer: minx, maxx
MercatorBox(bb, buffer_m, fig) ==
    LET x1 == lonlat_to_webmercator(bb[3].val)
        x2 == lonlat_to_webmercator(bb[4].val)
        pad == IF buffer_m > 0 THEN buffer_m ELSE 0
    IN  [minx |-> Min(x1, x2) - pad, maxx |-> Max(x1, x2) + pad, px |-> fig[1] * fig[2]]

\* INITIAL_RESOLUTION_M_PER_PX * sqrt(2) = 221385.2816..., times px, floored
ResolutionRoot2(px) == 221385 * px + (2816 * px) \div 10000

RECURSIVE Pow2(_)
Pow2(n) == IF n = 0 THEN 1 ELSE 2 * Pow2(n - 1)

\* int(round(log2(INITIAL_RESOLUTION_M_PER_PX / 1e-6))): the resolution floor
\* of 1e-6 m per pixel is in force
FloorZoom == 37

MinZoom == 0

MaxZoom == 19

RawZooms == -9..31

\* log2(INITIAL_RESOLUTION_M_PER_PX * px / width) >= n - 1/2
AtLeastZoom(n, width, px) ==
    IF n >= 0 THEN ResolutionRoot2(px) \div Pow2(n) >= width
    ELSE ResolutionRoot2(px) >= (width + Pow2(-n) - 1) \div Pow2(-n)

\* int(round(math.log2(INITIAL_RESOLUTION_M_PER_PX / max(target_res_m_per_px, 1e-6))))
RoundLog2(bbox_width_m, fig_width_px) ==
    LET px == Max(fig_width_px, 1)
    IN  IF bbox_width_m = 0 THEN FloorZoom
        ELSE CHOOSE n \in RawZooms :
                /\ AtLeastZoom(n, bbox_width_m, px)
                /\ ~AtLeastZoom(n + 1, bbox_width_m, px)

\* faulty variant: the estimate is passed on as it is
ZoomUnclamped(g) == RoundLog2(g.maxx - g.minx, g.px)

\* zoom = max(0, min(19, zoom))
Zoom(g) == Max(MinZoom, Min(MaxZoom, RoundLog2(g.maxx - g.minx, g.px)))

(***************************************************************************)
(* load_font: the ordered list of preferred font files with their weight,  *)
(* the files present on disk, and the font returned.                       *)
(***************************************************************************)
DejaVuSerif == "/usr/share/fonts/truetype/dejavu/DejaVuSerif.ttf"

DejaVuSerifBold == "/usr/share/fonts/truetype/dejavu/DejaVuSerif-Bold.ttf"

LiberationSerif == "/usr/share/fonts/truetype/liberation/LiberationSerif-Regular.ttf"

LiberationSerifBold == "/usr/share/fonts/truetype/liberation/LiberationSerif-Bold.ttf"

FontFiles == {DejaVuSerif, DejaVuSerifBold, LiberationSerif, LiberationSerifBold}

\* preferred, as (path, is_bold) pairs; the template script knows DejaVu only
Preferred(sc) ==
    IF sc = "template"
    THEN << <<DejaVuSerif, FALSE>>, <<DejaVuSerifBold, TRUE>> >>
    ELSE << <<DejaVuSerif, FALSE>>, <<DejaVuSerifBold, TRUE>>,
            <<LiberationSerif, FALSE>>, <<LiberationSerifBold, TRUE>> >>

\* the sizes main() asks for
FontSizes == {28, 44, 96}

\* ImageFont.truetype(path, size=size)
TrueType(path, size) == [kind |-> "truetype", path |-> path, size |-> size]

\* ImageFont.load_default()
DefaultFont == [kind |-> "default", path |-> "", size |-> 0]

\* faulty variant: the weight of the file is not compared with the request
load_font_any_weight(preferred, onDisk, size, bold) ==
    LET hits == {i \in 1..Len(preferred) : preferred[i][1] \in onDisk}
    IN  IF hits = {} THEN DefaultFont
        ELSE TrueType(preferred[Least(hits)][1], size)

\* the loop breaks at the first entry that exists and has the weight asked for
load_font(preferred, onDisk, size, bold) ==
    LET hits == {i \in 1..Len(preferred) :
                    preferred[i][1] \in onDisk /\ preferred[i][2] = bold}
    IN  IF hits = {} THEN DefaultFont
        ELSE TrueType(preferred[Least(hits)][1], size)

(***************************************************************************)
(* The parchment texture: make_parchment and add_grain.  A noise field is  *)
(* drawn from a generator seeded for the call, added to the base colour in *)
(* 16-bit integers and clipped to 0..255.  The bit stream of the generator *)
(* (PCG64) is not modelled: the generator is a deterministic function of   *)
(* its seed and of the number of values drawn before, one of a family      *)
(* indexed by a key, so that every value of the range occurs.              *)
(***************************************************************************)
ParchmentColor == <<238, 227, 203>>

\* int(255 * strength), strength in hundredths
GrainHigh(strength) == (255 * strength) \div 100

\* int(-255 * strength): int() truncates toward zero
GrainLow(strength) == -((255 * strength) \div 100)

\* add_grain's default and the strength make_frame passes
Strengths == {7, 8}

GrainSeed == 5

\* low, high, seed of each make_parchment
NoiseOf(fn) ==
    CASE fn = "altes" -> [low |-> -12, high |-> 12, seed |-> 7]
      [] fn = "template" -> [low |-> -12, high |-> 12, seed |-> 11]
      [] fn = "telegramm" -> [low |-> -10, high |-> 10, seed |-> 21]
      [] fn = "historisch" -> [low |-> -10, high |-> 10, seed |-> 42]

GenKeys == 0..39

\* rng.integers(low, high): the k-th value drawn from a generator seeded with seed
Draw(key, seed, k, low, high) ==
    low + ((key + 31 * seed + 17 * k + seed * k) % (high - low))

\* rng.integers(low, high, size): n values, the generator having drawn start before
Field(key, seed, start, n, low, high) ==
    [k \in 1..n |-> Draw(key, seed, start + k, low, high)]

\* a value as int16 holds it
Int16(v) == ((v + 32768) % 65536) - 32768

\* np.clip(a, 0, 255)
Clip(v) == IF v < 0 THEN 0 ELSE IF v > 255 THEN 255 ELSE v

\* .astype(np.uint8)
Uint8(v) == v % 256

\* faulty variant: the sum cast to uint8 without clipping
AddClipWraps(b, p) == Uint8(Int16(Int16(b) + Int16(p)))

\* np.clip(arr + noise, 0, 255).astype(np.uint8), arr and noise int16
AddClip(b, p) == Uint8(Clip(Int16(Int16(b) + Int16(p))))

\* the channel values of an image of one colour under a noise field
Composite(base, field) ==
    [k \in 1..Len(field) |-> AddClip(base[((k - 1) % 3) + 1], field[k])]

\* height * width * 3 values
FieldSize(w, h) == 3 * w * h

Dims == {-1, 0, 1, 2}

Budgets == {0, 5, 200}

TxCall(fn, w, h, noise, base, budget) ==
    [fn |-> fn, w |-> w, h |-> h, seed |-> noise.seed, low |-> noise.low,
     high |-> noise.high, base |-> base, budget |-> budget]

\* make_parchment((w, h)) followed by the body text at a width budget;
\* add_grain(img, strength) on a frame of one pixel
TextureCalls ==
    {TxCall(fn, w, h, NoiseOf(fn), ParchmentColor, m) :
        fn \in Scripts \ {"map"}, w \in Dims, h \in Dims, m \in Budgets}
    \cup {TxCall("grain", 1, 1,
                 [low |-> GrainLow(st), high |-> GrainHigh(st), seed |-> GrainSeed],
                 <<b, 0, 255>>, 0) : b \in 0..255, st \in Strengths}

NoTxCall == TxCall("none", 0, 0, [low |-> 0, high |-> 0, seed |-> 0], <<>>, 0)

\* the arguments of a noise generator call
NoiseArgs ==
    {[seed |-> sd, w |-> sz[1], h |-> sz[2], low |-> r[1], high |-> r[2]] :
        sd \in {7, 11}, sz \in {<<1, 1>>, <<2, 1>>}, r \in {<<-12, 12>>, <<-10, 10>>}}

NoiseKeys == 0..2

(***************************************************************************)
(* State.                                                                  *)
(***************************************************************************)
VARIABLES
    script,   \* which script's main() runs
    pc,       \* index of the next statement of Plan(script)
    status,   \* "running", "done" (main returned) or "raised"
    ops,      \* the canvas operations performed so far, in order
    files,    \* the files written so far, in order
    lay,      \* position inside the layout engine: "idle", "loop", "draw"
    inp,      \* the arguments of the running / last layout call
    cols,     \* column budget of the layout call
    paras,    \* paragraphs not yet handled
    wrapped,  \* draw_text_block: lines collected, not yet drawn
    stream,   \* vertical advances made by the layout call, in order
    y,        \* the layout engine's cursor
    retY,     \* y as returned to main() (-1: no layout call returned yet)
    err,      \* the exception that ended the run ("": none)
    geo,      \* plot_map: what geocode_bbox returned and the figure asked for
    zoom,     \* plot_map: the tile zoom level (-1: not computed yet)
    fetches,  \* plot_map: the add_basemap calls made so far, in order
    fontCall,   \* load_font: the request and the font files on disk
    fontResult, \* load_font: what the call returned (NoFont: no call yet)
    txCall,   \* texture: the request
    txPc,     \* texture: "idle", "new", "noise", "clip", "blur", "text", "done", "raised"
    txField,  \* texture: the noise field
    txPixels, \* texture: the channel values before blurring
    txErr,    \* texture: the exception raised ("": none)
    txDrawn,  \* texture: the text lines drawn on the canvas
    genKey,   \* which generator of the family this run has
    noiseLog, \* the noise generator calls made, with their fields
    rngDrawn  \* values drawn so far from the generator last created

vars ==
    <<script, pc, status, ops, files, lay, inp, cols, paras, wrapped, stream, y, retY,
      err, geo, zoom, fetches, fontCall, fontResult,
      txCall, txPc, txField, txPixels, txErr, txDrawn, genKey, noiseLog, rngDrawn>>

mapVars == <<geo, zoom, fetches>>

\* state of the single functions, which the pipelines leave alone
fontVars == <<fontCall, fontResult>>

textureVars == <<txCall, txPc, txField, txPixels, txErr, txDrawn>>

noiseVars == <<noiseLog, rngDrawn>>

unitVars == <<fontVars, textureVars, genKey, noiseVars>>

layoutVars == <<lay, inp, cols, paras, wrapped, stream, y, retY>>

NoGeo == [minx |-> 0, maxx |-> 0, px |-> 0]

NoFontCall == [size |-> 0, bold |-> FALSE, onDisk |-> {}]

NoFont == [kind |-> "none", path |-> "", size |-> 0]

Init ==
    /\ script \in Scripts
    /\ pc = 1
    /\ status = "running"
    /\ ops = <<>>
    /\ files = <<>>
    /\ lay = "idle"
    /\ inp = NoInput
    /\ cols = 0
    /\ paras = <<>>
    /\ wrapped = <<>>
    /\ stream = <<>>
    /\ y = 0
    /\ retY = -1
    /\ err = ""
    /\ geo = NoGeo
    /\ zoom = -1
    /\ fetches = <<>>
    /\ fontCall = NoFontCall
    /\ fontResult = NoFont
    /\ txCall = NoTxCall
    /\ txPc = "idle"
    /\ txField = <<>>
    /\ txPixels = <<>>
    /\ txErr = ""
    /\ txDrawn = <<>>
    /\ genKey = 0
    /\ noiseLog = <<>>
    /\ rngDrawn = 0

Cur == Plan(script)[pc]

AtStatement(kinds) ==
    /\ status = "running"
    /\ lay = "idle"
    /\ pc <= Len(Plan(script))
    /\ Cur.op \in kinds

Event(st) ==
    [op |-> st.op, name |-> st.name, canvas |-> st.canvas,
     top |-> IF st.rel THEN retY + st.at ELSE st.at]

\* after the last statement main() returns
Goto(n) ==
    /\ pc' = n
    /\ status' = IF n > Len(Plan(script)) THEN "done" ELSE "running"

(***************************************************************************)
(* Statements of main() and make_parchment().                              *)
(***************************************************************************)
\* Image.new("RGB", size, ...); plt.subplots(...)
AllocCanvas ==
    /\ AtStatement({"alloc"})
    /\ ops' = Append(ops, Event(Cur))
    /\ Goto(pc + 1)
    /\ UNCHANGED <<script, files>>
    /\ UNCHANGED layoutVars
    /\ UNCHANGED <<err, mapVars, unitVars>>

\* noise + clip + blur, vignette composite
BuildTexture ==
    /\ AtStatement({"noise", "vignette"})
    /\ ops' = Append(ops, Event(Cur))
    /\ Goto(pc + 1)
    /\ UNCHANGED <<script, files>>
    /\ UNCHANGED layoutVars
    /\ UNCHANGED <<err, mapVars, unitVars>>

\* fold lines, spots, decorative rules, guide lines
DrawOverlay ==
    /\ AtStatement({"fold", "spots", "rule"})
    /\ ops' = Append(ops, Event(Cur))
    /\ Goto(pc + 1)
    /\ UNCHANGED <<script, files>>
    /\ UNCHANGED layoutVars
    /\ UNCHANGED <<err, mapVars, unitVars>>

\* draw.text of a fixed string
DrawText ==
    /\ AtStatement({"text"})
    /\ ops' = Append(ops, Event(Cur))
    /\ Goto(pc + 1)
    /\ UNCHANGED <<script, files>>
    /\ UNCHANGED layoutVars
    /\ UNCHANGED <<err, mapVars, unitVars>>

\* base.copy()
CopyCanvas ==
    /\ AtStatement({"copy"})
    /\ ops' = Append(ops, Event(Cur))
    /\ Goto(pc + 1)
    /\ UNCHANGED <<script, files>>
    /\ UNCHANGED layoutVars
    /\ UNCHANGED <<err, mapVars, unitVars>>

\* img.save(path), fig.savefig(path): the file holds the canvas as drawn so far
Save ==
    /\ AtStatement({"save"})
    /\ ops' = Append(ops, Event(Cur))
    /\ files' = Append(files, [name |-> Cur.name, canvas |-> Cur.canvas, after |-> pc - 1])
    /\ Goto(pc + 1)
    /\ UNCHANGED script
    /\ UNCHANGED layoutVars
    /\ UNCHANGED <<err, mapVars, unitVars>>

\* geocode_bbox(place) returned; the box in Web Mercator, buffered
Geocode ==
    /\ AtStatement({"geocode"})
    /\ \E resp \in GeocodeResponses, fig \in Figures, buffer_m \in Buffers :
          /\ GeocodeError(resp) = ""
          /\ geo' = MercatorBox(resp.data[1].boundingbox, buffer_m, fig)
    /\ ops' = Append(ops, Event(Cur))
    /\ Goto(pc + 1)
    /\ UNCHANGED <<script, files>>
    /\ UNCHANGED layoutVars
    /\ UNCHANGED <<err, zoom, fetches, unitVars>>

\* faulty variant: a failed lookup is reported and plot_map goes on
GeocodeFailureIgnored ==
    /\ AtStatement({"geocode"})
    /\ \E resp \in GeocodeResponses :
          /\ GeocodeError(resp) # ""
          /\ err' = GeocodeError(resp)
    /\ ops' = Append(ops, [Event(Cur) EXCEPT !.op = "warning"])
    /\ Goto(pc + 1)
    /\ UNCHANGED <<script, files>>
    /\ UNCHANGED layoutVars
    /\ UNCHANGED <<mapVars, unitVars>>

\* geocode_bbox(place) raised: nothing in plot_map or main catches it
GeocodeFails ==
    /\ AtStatement({"geocode"})
    /\ \E resp \in GeocodeResponses :
          /\ GeocodeError(resp) # ""
          /\ err' = GeocodeError(resp)
    /\ status' = "raised"
    /\ UNCHANGED <<script, pc, ops, files>>
    /\ UNCHANGED layoutVars
    /\ UNCHANGED <<mapVars, unitVars>>

\* the zoom estimate from the figure's and the box's width
EstimateZoom ==
    /\ AtStatement({"zoom"})
    /\ zoom' = Zoom(geo)
    /\ ops' = Append(ops, Event(Cur))
    /\ Goto(pc + 1)
    /\ UNCHANGED <<script, files>>
    /\ UNCHANGED layoutVars
    /\ UNCHANGED <<err, geo, fetches, unitVars>>

Fetch(source) == [source |-> source, zoom |-> zoom]

\* cx.add_basemap(..., Esri.WorldImagery, zoom=zoom), outside any try
AddBasemap ==
    /\ AtStatement({"basemap"})
    /\ fetches' = Append(fetches, Fetch(Cur.name))
    /\ ops' = Append(ops, Event(Cur))
    /\ Goto(pc + 1)
    /\ UNCHANGED <<script, files>>
    /\ UNCHANGED layoutVars
    /\ UNCHANGED <<err, geo, zoom, unitVars>>

\* the imagery could not be fetched: the exception leaves plot_map
BasemapFails ==
    /\ AtStatement({"basemap"})
    /\ fetches' = Append(fetches, Fetch(Cur.name))
    /\ status' = "raised"
    /\ err' = "Exception"
    /\ UNCHANGED <<script, pc, ops, files>>
    /\ UNCHANGED layoutVars
    /\ UNCHANGED <<geo, zoom, unitVars>>

\* try: cx.add_basemap(...) succeeded
AddOverlay ==
    /\ AtStatement({"optional"})
    /\ fetches' = Append(fetches, Fetch(Cur.name))
    /\ ops' = Append(ops, Event(Cur))
    /\ Goto(pc + 1)
    /\ UNCHANGED <<script, files>>
    /\ UNCHANGED layoutVars
    /\ UNCHANGED <<err, geo, zoom, unitVars>>

\* faulty variant: no try/except around the overlay, its exception leaves
\* plot_map
OverlayFailureRaises ==
    /\ AtStatement({"optional"})
    /\ status' = "raised"
    /\ err' = "Exception"
    /\ UNCHANGED <<script, pc, ops, files>>
    /\ UNCHANGED layoutVars
    /\ UNCHANGED <<mapVars, unitVars>>

\* except Exception: print a warning and go on without the overlay
OverlayUnavailable ==
    /\ AtStatement({"optional"})
    /\ fetches' = Append(fetches, Fetch(Cur.name))
    /\ ops' = Append(ops, [Event(Cur) EXCEPT !.op = "warning"])
    /\ Goto(pc + 1)
    /\ UNCHANGED <<script, files>>
    /\ UNCHANGED layoutVars
    /\ UNCHANGED <<err, geo, zoom, unitVars>>

\* ensure_dir(out_dir), ensure_dirs(os.path.dirname(out_base)): os.makedirs
EnsureDirs ==
    /\ AtStatement({"mkdir"})
    /\ ops' = Append(ops, Event(Cur))
    /\ Goto(pc + 1)
    /\ UNCHANGED <<script, files>>
    /\ UNCHANGED layoutVars
    /\ UNCHANGED <<err, mapVars, unitVars>>

\* the statement about to run raises; nothing catches it in main() or
\* plot_map() (an optional overlay's exception is caught: OverlayUnavailable;
\* geocoding and the imagery fail in GeocodeFails and BasemapFails)
Raise ==
    /\ AtStatement({"alloc", "noise", "vignette", "fold", "spots", "rule", "text",
                    "copy", "body", "save", "mkdir"})
    /\ status' = "raised"
    /\ UNCHANGED <<script, pc, ops, files>>
    /\ UNCHANGED layoutVars
    /\ err' = "Exception"
    /\ UNCHANGED <<mapVars, unitVars>>

(***************************************************************************)
(* The layout engines.                                                     *)
(***************************************************************************)
Entry(top, line, drawn) == [top |-> top, line |-> line, drawn |-> drawn]

\* for line in lines: draw.text((x, y), line); y += adv
RECURSIVE DrawLines(_, _, _, _)
DrawLines(lines, y0, adv, acc) ==
    IF lines = <<>> THEN acc
    ELSE DrawLines(Tail(lines), y0 + adv, adv, Append(acc, Entry(y0, Head(lines), TRUE)))

\* main() calls draw_wrapped / draw_text_block; the engine computes the
\* column budget and splits the text into paragraphs
LayoutEnter ==
    /\ AtStatement({"body"})
    /\ \E i \in LayoutInputs(script) :
          /\ inp' = i
          /\ cols' = ColsOf(i.font, i.maxWidthPx)
          /\ paras' = SplitLines(i.text)
    /\ y' = Cur.at
    /\ stream' = <<>>
    /\ wrapped' = <<>>
    /\ lay' = "loop"
    /\ ops' = Append(ops, Event(Cur))
    /\ UNCHANGED <<script, pc, status, files, retY>>
    /\ UNCHANGED <<err, mapVars, unitVars>>

InWrappedLoop ==
    /\ status = "running"
    /\ lay = "loop"
    /\ ~UsesTextBlock(script)
    /\ paras # <<>>

\* faulty variant: a blank paragraph skipped without advancing
WrappedBlankNoAdvance ==
    /\ InWrappedLoop
    /\ IsBlank(Head(paras))
    /\ paras' = Tail(paras)
    /\ UNCHANGED <<script, pc, status, ops, files, lay, inp, cols, wrapped, stream, y, retY>>
    /\ UNCHANGED <<err, mapVars, unitVars>>

\* draw_wrapped, blank paragraph: advance without drawing
WrappedBlank ==
    /\ InWrappedLoop
    /\ IsBlank(Head(paras))
    /\ stream' = Append(stream, Entry(y, <<>>, FALSE))
    /\ y' = y + AdvanceWrapped(inp.font, inp.ratio)
    /\ paras' = Tail(paras)
    /\ UNCHANGED <<script, pc, status, ops, files, lay, inp, cols, wrapped, retY>>
    /\ UNCHANGED <<err, mapVars, unitVars>>

\* draw_wrapped, other paragraph: wrap it, draw each line and advance
WrappedPara ==
    /\ InWrappedLoop
    /\ ~IsBlank(Head(paras))
    /\ LET lines == Wrap(Head(paras), cols)
           adv == AdvanceWrapped(inp.font, inp.ratio)
       IN /\ stream' = DrawLines(lines, y, adv, stream)
          /\ y' = y + Len(lines) * adv
    /\ paras' = Tail(paras)
    /\ UNCHANGED <<script, pc, status, ops, files, lay, inp, cols, wrapped, retY>>
    /\ UNCHANGED <<err, mapVars, unitVars>>

\* faulty variant: blank paragraphs are dropped while collecting
BlockCollectSkipsBlank ==
    /\ status = "running"
    /\ lay = "loop"
    /\ UsesTextBlock(script)
    /\ paras # <<>>
    /\ wrapped' = IF IsBlank(Head(paras))
                  THEN wrapped
                  ELSE wrapped \o Wrap(Head(paras), cols)
    /\ paras' = Tail(paras)
    /\ UNCHANGED <<script, pc, status, ops, files, lay, inp, cols, stream, y, retY>>
    /\ UNCHANGED <<err, mapVars, unitVars>>

\* draw_text_block, first loop: collect "" for a blank paragraph and the
\* wrapped lines of any other
BlockCollect ==
    /\ status = "running"
    /\ lay = "loop"
    /\ UsesTextBlock(script)
    /\ paras # <<>>
    /\ wrapped' = IF IsBlank(Head(paras))
                  THEN Append(wrapped, <<>>)
                  ELSE wrapped \o Wrap(Head(paras), cols)
    /\ paras' = Tail(paras)
    /\ UNCHANGED <<script, pc, status, ops, files, lay, inp, cols, stream, y, retY>>
    /\ UNCHANGED <<err, mapVars, unitVars>>

\* draw_text_block, between the loops
BlockCollected ==
    /\ status = "running"
    /\ lay = "loop"
    /\ UsesTextBlock(script)
    /\ paras = <<>>
    /\ lay' = "draw"
    /\ UNCHANGED <<script, pc, status, ops, files, inp, cols, paras, wrapped, stream, y, retY>>
    /\ UNCHANGED <<err, mapVars, unitVars>>

\* draw_text_block, second loop: draw one collected line and advance
BlockDraw ==
    /\ status = "running"
    /\ lay = "draw"
    /\ wrapped # <<>>
    /\ stream' = Append(stream, Entry(y, Head(wrapped), TRUE))
    /\ y' = y + AdvanceBlock(inp.font, inp.spacingPx)
    /\ wrapped' = Tail(wrapped)
    /\ UNCHANGED <<script, pc, status, ops, files, lay, inp, cols, paras, retY>>
    /\ UNCHANGED <<err, mapVars, unitVars>>

\* return y
LayoutReturn ==
    /\ status = "running"
    /\ \/ lay = "loop" /\ ~UsesTextBlock(script) /\ paras = <<>>
       \/ lay = "draw" /\ wrapped = <<>>
    /\ lay' = "idle"
    /\ retY' = y
    /\ Goto(pc + 1)
    /\ UNCHANGED <<script, ops, files, inp, cols, paras, wrapped, stream, y>>
    /\ UNCHANGED <<err, mapVars, unitVars>>

Next ==
    \/ AllocCanvas
    \/ BuildTexture
    \/ DrawOverlay
    \/ DrawText
    \/ CopyCanvas
    \/ Save
    \/ Geocode
    \/ GeocodeFails
    \/ EstimateZoom
    \/ AddBasemap
    \/ BasemapFails
    \/ AddOverlay
    \/ OverlayUnavailable
    \/ EnsureDirs
    \/ Raise
    \/ LayoutEnter
    \/ WrappedBlank
    \/ WrappedPara
    \/ BlockCollect
    \/ BlockCollected
    \/ BlockDraw
    \/ LayoutReturn

Spec == Init /\ [][Next]_vars

(***************************************************************************)
(* Font resolution on its own: some of the font files are on disk, and     *)
(* load_font is called with any size and weight, any number of times.      *)
(***************************************************************************)
\* main() has not started
PipelineIdle ==
    /\ pc = 1
    /\ status = "running"
    /\ ops = <<>>
    /\ files = <<>>
    /\ lay = "idle"
    /\ inp = NoInput
    /\ cols = 0
    /\ paras = <<>>
    /\ wrapped = <<>>
    /\ stream = <<>>
    /\ y = 0
    /\ retY = -1
    /\ err = ""
    /\ geo = NoGeo
    /\ zoom = -1
    /\ fetches = <<>>

FontIdle ==
    /\ fontCall = NoFontCall
    /\ fontResult = NoFont

TextureIdle ==
    /\ txCall = NoTxCall
    /\ txPc = "idle"
    /\ txField = <<>>
    /\ txPixels = <<>>
    /\ txErr = ""
    /\ txDrawn = <<>>

NoiseIdle ==
    /\ noiseLog = <<>>
    /\ rngDrawn = 0

FontInit ==
    /\ script \in Scripts \ {"map"}
    /\ PipelineIdle
    /\ \E onDisk \in SUBSET FontFiles : fontCall = [NoFontCall EXCEPT !.onDisk = onDisk]
    /\ fontResult = NoFont
    /\ TextureIdle
    /\ genKey = 0
    /\ NoiseIdle

LoadFont ==
    /\ \E size \in FontSizes, bold \in BOOLEAN :
          /\ fontCall' = [fontCall EXCEPT !.size = size, !.bold = bold]
          /\ fontResult' = load_font(Preferred(script), fontCall.onDisk, size, bold)
    /\ UNCHANGED <<script, pc, status, ops, files, err>>
    /\ UNCHANGED layoutVars
    /\ UNCHANGED mapVars
    /\ UNCHANGED <<textureVars, genKey, noiseVars>>

FontNext == LoadFont

FontSpec == FontInit /\ [][FontNext]_vars

(***************************************************************************)
(* The noise generator on its own: calls with any arguments, one after     *)
(* the other, each on a generator created for the call.                    *)
(***************************************************************************)
NoiseInit ==
    /\ script = "template"
    /\ PipelineIdle
    /\ FontIdle
    /\ TextureIdle
    /\ genKey \in NoiseKeys
    /\ NoiseIdle

NoiseEntry(a, field) ==
    [args |-> a, field |-> field, texture |-> Composite(ParchmentColor, field)]

\* faulty variant: one generator shared by all calls
NoiseCallSharedGenerator ==
    /\ Len(noiseLog) < MaxCalls
    /\ \E a \in NoiseArgs :
          LET n == FieldSize(a.w, a.h)
              field == Field(genKey, a.seed, rngDrawn, n, a.low, a.high)
          IN  /\ noiseLog' = Append(noiseLog, NoiseEntry(a, field))
              /\ rngDrawn' = rngDrawn + n
    /\ UNCHANGED <<script, pc, status, ops, files, err>>
    /\ UNCHANGED layoutVars
    /\ UNCHANGED mapVars
    /\ UNCHANGED <<fontVars, textureVars, genKey>>

\* rng = np.random.default_rng(seed); noise = rng.integers(low, high, size)
NoiseCall ==
    /\ Len(noiseLog) < MaxCalls
    /\ \E a \in NoiseArgs :
          LET n == FieldSize(a.w, a.h)
              field == Field(genKey, a.seed, 0, n, a.low, a.high)
          IN  /\ noiseLog' = Append(noiseLog, NoiseEntry(a, field))
              /\ rngDrawn' = n
    /\ UNCHANGED <<script, pc, status, ops, files, err>>
    /\ UNCHANGED layoutVars
    /\ UNCHANGED mapVars
    /\ UNCHANGED <<fontVars, textureVars, genKey>>

NoiseNext == NoiseCall

NoiseSpec == NoiseInit /\ [][NoiseNext]_vars

(***************************************************************************)
(* One render on its own: make_parchment(size), then the body text at a    *)
(* width budget; or add_grain on a frame.                                  *)
(***************************************************************************)
TextureInit ==
    /\ script = "altes"
    /\ PipelineIdle
    /\ FontIdle
    /\ txCall \in TextureCalls
    /\ txPc = IF txCall.fn = "grain" THEN "noise" ELSE "new"
    /\ txField = <<>>
    /\ txPixels = <<>>
    /\ txErr = ""
    /\ txDrawn = <<>>
    /\ genKey \in GenKeys
    /\ NoiseIdle

TxStep(from, to) ==
    /\ txPc = from
    /\ txPc' = to
    /\ UNCHANGED <<script, pc, status, ops, files, err>>
    /\ UNCHANGED layoutVars
    /\ UNCHANGED mapVars
    /\ UNCHANGED <<fontVars, txCall, genKey, noiseVars>>

\* faulty variant: the canvas allocated whatever the size
TxNewUnchecked ==
    /\ TxStep("new", "noise")
    /\ UNCHANGED <<txField, txPixels, txErr, txDrawn>>

\* Image.new("RGB", size, color): sizes from 0 up are accepted
TxNew ==
    /\ txCall.w >= 0 /\ txCall.h >= 0
    /\ TxStep("new", "noise")
    /\ UNCHANGED <<txField, txPixels, txErr, txDrawn>>

\* Image.new raises ValueError("Width and height must be >= 0")
TxNewFails ==
    /\ txCall.w < 0 \/ txCall.h < 0
    /\ TxStep("new", "raised")
    /\ txErr' = "ValueError"
    /\ UNCHANGED <<txField, txPixels, txDrawn>>

\* np.random.default_rng(seed).integers(low, high, size=(height, width, 3))
TxNoise ==
    /\ TxStep("noise", "clip")
    /\ txField' = Field(genKey, txCall.seed, 0, FieldSize(txCall.w, txCall.h),
                        txCall.low, txCall.high)
    /\ UNCHANGED <<txPixels, txErr, txDrawn>>

\* arr = np.clip(arr + noise, 0, 255).astype(np.uint8)
TxClip ==
    /\ TxStep("clip", "blur")
    /\ txPixels' = Composite(txCall.base, txField)
    /\ UNCHANGED <<txField, txErr, txDrawn>>

\* Image.fromarray(arr).filter(GaussianBlur) and the rest of the function
TxBlur ==
    /\ TxStep("blur", IF txCall.fn = "grain" THEN "done" ELSE "text")
    /\ UNCHANGED <<txField, txPixels, txErr, txDrawn>>

\* an image without pixels: the conversions between Pillow and numpy may
\* raise on it or not, depending on the versions installed
TxZeroSizeFails ==
    /\ txCall.w = 0 \/ txCall.h = 0
    /\ \/ TxStep("clip", "raised")
       \/ TxStep("blur", "raised")
    /\ txErr' = "Exception"
    /\ UNCHANGED <<txField, txPixels, txDrawn>>

\* the body text drawn by draw_wrapped / draw_text_block at the width budget
TxText ==
    /\ TxStep("text", "done")
    /\ txDrawn' = Wrap(TokShort, ColsOf(BodyFont, txCall.budget))
    /\ UNCHANGED <<txField, txPixels, txErr>>

TextureNext ==
    \/ TxNew
    \/ TxNewFails
    \/ TxNoise
    \/ TxClip
    \/ TxBlur
    \/ TxZeroSizeFails
    \/ TxText

TextureSpec == TextureInit /\ [][TextureNext]_vars

(***************************************************************************)
(* Vocabulary of the properties.                                           *)
(***************************************************************************)
Range(f) == {f[i] : i \in DOMAIN f}

BodyIndex(sc) == CHOOSE k \in 1..Len(Plan(sc)) : Plan(sc)[k].op = "body"

\* the y main() passes to the layout engine
BodyStartY == Plan(script)[BodyIndex(script)].at

\* the layout call has started
InLayout == lay # "idle" \/ retY >= 0

\* the layout call has returned
LaidOut == retY >= 0

\* the layout call has just returned to main(); nothing changes the layout
\* variables afterwards
Returned == LaidOut /\ status = "running" /\ pc = BodyIndex(script) + 1

IsWs(s, i) == i >= 1 /\ i <= Len(s) /\ s[i] \in {Space, Newline}

\* the words of a string: its maximal runs of non-whitespace, in order
WordsOf(s) ==
    LET starts == {i \in 1..Len(s) : ~IsWs(s, i) /\ (i = 1 \/ IsWs(s, i - 1))}
        n == Cardinality(starts)
        start(k) == CHOOSE i \in starts : Cardinality({j \in starts : j < i}) = k - 1
        stop(i) == Least({q \in i..(Len(s) + 1) : q > Len(s) \/ IsWs(s, q)})
    IN [k \in 1..n |-> SubSeq(s, start(k), stop(start(k)) - 1)]

\* a string without its whitespace
NonSpace(s) == SelectSeq(s, LAMBDA c : c \notin {Space, Newline})

\* the lines the layout call emitted, joined by single spaces
RECURSIVE JoinedFrom(_, _)
JoinedFrom(st, i) ==
    IF i > Len(st) THEN <<>>
    ELSE st[i].line \o <<Space>> \o JoinedFrom(st, i + 1)

EmittedText == JoinedFrom(stream, 1)
EmittedWords == WordsOf(EmittedText)
TextWords == WordsOf(inp.text)

HasHyphen(w) == \E i \in 1..Len(w) : w[i] = Hyphen

IsFragment(w, v) ==
    \E i \in 1..(Len(v) - Len(w) + 1) : SubSeq(v, i, i + Len(w) - 1) = w

\* the paragraphs of a text, counted from its newlines: the k-th paragraph
\* lies between the (k-1)-th and the k-th newline
NewlinePositions(t) == {i \in 1..Len(t) : t[i] = Newline}

ParagraphAfter(t, a) ==
    LET b == Least({q \in (a + 1)..(Len(t) + 1) : q > Len(t) \/ t[q] = Newline})
    IN SubSeq(t, a + 1, b - 1)

RECURSIVE SumOver(_, _, _, _)
SumOver(S, t, c, acc) ==
    IF S = {} THEN acc
    ELSE LET a == CHOOSE x \in S : TRUE
             para == ParagraphAfter(t, a)
         IN SumOver(S \ {a}, t, c, acc + (IF IsBlank(para) THEN 1 ELSE Len(Wrap(para, c))))

\* blank paragraphs + wrapped lines of the other paragraphs
ExpectedAdvances(t, c) == SumOver({0} \cup NewlinePositions(t), t, c, 0)

(***************************************************************************)
(* C1 (as amended): every emitted line and every blank paragraph advances  *)
(* the cursor by the product truncated toward zero, not rounded:           *)
(* int(size * (1 + ratio)) in draw_wrapped (size 44, ratio 0.2: 52 pixels) *)
(* and int(size * 1.2) + line_spacing pixels in draw_text_block; after n   *)
(* advances y is startY + n times that advance.                            *)
(***************************************************************************)
C1_Step ==
    IF UsesTextBlock(script)
    THEN (inp.font.size * 120) \div 100 + inp.spacingPx
    ELSE (inp.font.size * (100 + inp.ratio)) \div 100

C1_TruncatedAdvance ==
    InLayout =>
        /\ y = BodyStartY + Len(stream) * C1_Step
        /\ \A i \in 1..Len(stream) : stream[i].top = BodyStartY + (i - 1) * C1_Step
        /\ LaidOut => retY = y

C1_Witness ==
    /\ LaidOut
    /\ script = "altes"
    /\ inp.font.size = 44
    /\ inp.ratio = 20
    /\ Len(stream) = 3
    /\ ~stream[2].drawn
    /\ stream[3].drawn
    /\ retY = BodyStartY + 156

\* C1 as stated: the advance is the product rounded to the nearest pixel
\* (size 44, ratio 0.2: 53 pixels)
C1_RoundedAdvance ==
    (InLayout /\ ~UsesTextBlock(script)) =>
        y = BodyStartY + Len(stream) * ((inp.font.size * (100 + inp.ratio) + 50) \div 100)

(***************************************************************************)
(* C2 (as amended): the wrap step keeps whole every word that is no longer *)
(* than the column budget and has no hyphen: it appears unbroken on one    *)
(* emitted line.  A word longer than the budget is broken across lines,    *)
(* and a hyphenated word may be broken after a hyphen; every word of an    *)
(* emitted line is a word of the text or a piece of such a word.           *)
(***************************************************************************)
C2_Breakable(w) == Len(w) > cols \/ HasHyphen(w)

C2_ShortWordsWhole ==
    Returned =>
        LET emitted == Range(EmittedWords)
            given == Range(TextWords)
        IN /\ \A w \in emitted :
                 \/ w \in given
                 \/ \E v \in given : C2_Breakable(v) /\ IsFragment(w, v)
           /\ \A v \in given : ~C2_Breakable(v) => v \in emitted

C2_Witness ==
    /\ Returned
    /\ inp.text = TokShort \o <<Space>> \o TokLong
    /\ cols = 20
    /\ Len(stream) = 2
    /\ stream[1].line = SubSeq(inp.text, 1, 20)
    /\ stream[2].line = SubSeq(inp.text, 21, 24)

\* C2 as stated: no word is ever split, and a word longer than the budget
\* is emitted whole on its own line
C2_NeverSplits ==
    Returned =>
        /\ \A w \in Range(EmittedWords) : w \in Range(TextWords)
        /\ \A v \in Range(TextWords) :
              Len(v) > cols => \E i \in 1..Len(stream) : stream[i].line = v

(***************************************************************************)
(* C3: the number of vertical advances is the number of blank paragraphs   *)
(* plus the wrapped line counts of the other paragraphs, the paragraphs    *)
(* being the stretches between newlines; "A\n\nB" gives exactly 3 advances *)
(* (line, blank advance, line).                                            *)
(***************************************************************************)
C3_AdvanceCount ==
    Returned =>
        /\ Len(stream) = ExpectedAdvances(inp.text, cols)
        /\ Len(stream) >= Cardinality(NewlinePositions(inp.text)) + 1
        /\ inp.text = TokShort \o <<Newline, Newline>> \o TokShort =>
              /\ Len(stream) = 3
              /\ stream[1].line = TokShort
              /\ stream[2].line = <<>>
              /\ stream[3].line = TokShort

C3_Witness ==
    /\ Returned
    /\ inp.text = TokShort \o <<Newline, Newline>> \o TokShort
    /\ Len(stream) = 3
    /\ retY = BodyStartY + 3 * C1_Step

(***************************************************************************)
(* C4 (as amended): the empty string draws no glyphs but advances the      *)
(* cursor by exactly one line height: "".split("\n") is one empty          *)
(* paragraph, which the engine treats as a blank paragraph.                *)
(***************************************************************************)
C4_EmptyOneAdvance ==
    (LaidOut /\ inp.text = <<>>) =>
        /\ Len(stream) = 1
        /\ stream[1].line = <<>>
        /\ retY = BodyStartY + C1_Step
        /\ retY > BodyStartY

C4_Witness ==
    /\ LaidOut
    /\ inp.text = <<>>
    /\ script = "altes"
    /\ inp.font.size = 44
    /\ inp.ratio = 20
    /\ retY = BodyStartY + 52

\* C4 as stated: the empty string does not advance the cursor
C4_EmptyNoAdvance ==
    (LaidOut /\ inp.text = <<>>) =>
        /\ retY = BodyStartY
        /\ \A i \in 1..Len(stream) : stream[i].line = <<>>

(***************************************************************************)
(* C5 (as amended): no emitted line is longer than the column budget (a    *)
(* word that alone exceeds it is broken, not emitted over-long); the       *)
(* emitted lines reproduce the non-whitespace characters of the text in    *)
(* order; and when every word is within the budget and hyphen-free the     *)
(* emitted lines reproduce the word sequence exactly.                      *)
(***************************************************************************)
C5_WithinBudget ==
    Returned =>
        /\ \A i \in 1..Len(stream) : Len(stream[i].line) <= cols
        /\ NonSpace(EmittedText) = NonSpace(inp.text)
        /\ LET given == TextWords
           IN (\A v \in Range(given) : ~C2_Breakable(v)) => EmittedWords = given

C5_Witness ==
    /\ Returned
    /\ Len(TextWords) >= 2
    /\ \E v \in Range(TextWords) : Len(v) > cols
    /\ \E i \in 1..Len(stream) : Len(stream[i].line) = cols
    /\ EmittedWords # TextWords

\* C5 as stated: only a single over-long word may exceed the budget, and
\* the words of the emitted lines are exactly the words of the text
C5_WholeWordLines ==
    Returned =>
        /\ \A i \in 1..Len(stream) :
              \/ Len(stream[i].line) <= cols
              \/ Len(WordsOf(stream[i].line)) = 1
        /\ EmittedWords = TextWords

(***************************************************************************)
(* C6 (as amended): for a fixed font and text in which no paragraph begins *)
(* with a space and no word is longer than the smaller column budget, a    *)
(* larger maxWidthPx never gives more lines, more advances or a larger     *)
(* returned y.  Without the restriction the count can grow: a word longer  *)
(* than the budget is broken so that it fills the current line.            *)
(***************************************************************************)
C6_Widths == Widths \cup TextWidths

C6_LinesAt(w) == ExpectedAdvances(inp.text, ColsOf(inp.font, w))

C6_Regular ==
    /\ \A a \in {0} \cup NewlinePositions(inp.text) : ~IsSpace(inp.text, a + 1)
    /\ \A v \in Range(TextWords) : Len(v) <= cols

C6_MonotoneWhenWordsFit ==
    (Returned /\ C6_Regular) =>
        \A w \in C6_Widths :
            w > inp.maxWidthPx =>
                /\ C6_LinesAt(w) <= Len(stream)
                /\ BodyStartY + C6_LinesAt(w) * C1_Step <= retY

C6_Witness ==
    /\ Returned
    /\ C6_Regular
    /\ Len(TextWords) = 3
    /\ Len(stream) = 2
    /\ \E w \in C6_Widths : w > inp.maxWidthPx /\ C6_LinesAt(w) = 1

\* C6 as stated: for every text, a larger maxWidthPx never gives more lines
C6_Monotone ==
    Returned =>
        \A w \in C6_Widths : w > inp.maxWidthPx => C6_LinesAt(w) <= Len(stream)

(***************************************************************************)
(* C7 (as amended): the column budget is max(floor(maxWidthPx / avg), 20)  *)
(* where avg is the measured width of the 52-character reference alphabet  *)
(* divided by 52 and raised to at least 1 pixel; the budget is at least 20 *)
(* for every maxWidthPx and font, and equals floor(maxWidthPx / avg) when  *)
(* that is at least 20.                                                    *)
(***************************************************************************)
\* q = floor(maxWidthPx / (ref / 52))
C7_IsPlainQuotient(q) ==
    /\ q * inp.font.ref <= inp.maxWidthPx * 52
    /\ inp.maxWidthPx * 52 < (q + 1) * inp.font.ref

\* q = floor(maxWidthPx / max(ref / 52, 1))
C7_IsQuotient(q) ==
    IF inp.font.ref >= 52 THEN C7_IsPlainQuotient(q) ELSE q = inp.maxWidthPx

C7_BudgetClampedAverage ==
    InLayout =>
        /\ cols >= 20
        /\ cols > 20 => C7_IsQuotient(cols)
        /\ cols = 20 => \E q \in 0..20 : C7_IsQuotient(q)

C7_Witness ==
    /\ InLayout
    /\ inp.font.ref = 26
    /\ inp.maxWidthPx = 30
    /\ cols = 30

\* C7 as stated: avg is the reference width divided by 52, not raised to 1
C7_BudgetPlainAverage ==
    InLayout =>
        /\ cols >= 20
        /\ cols > 20 => C7_IsPlainQuotient(cols)
        /\ cols = 20 => \E q \in 0..20 : C7_IsPlainQuotient(q)

(***************************************************************************)
(* C8 (as amended): the y the layout engine returns is at or below the     *)
(* start y and at or below the bottom (top + font pixel size) of every     *)
(* line it rendered, so what main() places at the returned y plus an       *)
(* offset (signature line, signature texts) starts below the body rows;    *)
(* the footer is drawn at a fixed y and starts below the body rows only    *)
(* when that fixed y is at or after the returned y.                        *)
(***************************************************************************)
C8_BodyBottom(i) == stream[i].top + inp.font.size

C9_Documents == {"altes", "telegramm", "historisch", "template"}

C9_SavedLast ==
    /\ script \in C9_Documents =>
          /\ \A j \in 1..Len(ops) :
                ops[j].op \notin {"mkdir", "alloc"} => \E i \in 1..(j - 1) : ops[i].op = "alloc"
          /\ \A j \in 1..Len(ops) :
                ops[j].op \in {"noise", "vignette"} =>
                    \A i \in 1..(j - 1) :
                        ops[i].op \in {"mkdir", "alloc", "noise", "vignette"}
    /\ \A i \in 1..Len(ops) :
          ops[i].op = "save" =>
              \A j \in (i + 1)..Len(ops) :
                  /\ ops[j].canvas = ops[i].canvas => ops[j].op = "save"
                  /\ script # "template" => ops[j].op = "save"
    /\ status = "done" =>
          /\ ops[Len(ops)].op = "save"
          /\ Len(ops) = Len(Plan(script))
          /\ ~ENABLED Next

C9_Witness ==
    /\ status = "done"
    /\ script = "altes"
    /\ ops[6].name = "title"
    /\ ops[7].name = "Zierlinie"
    /\ ops[9].op = "body"
    /\ ops[10].name = "signature line"
    /\ ops[15].op = "save"

\* C9 as stated: the stages come in the order Init, TextureBuilt,
\* OverlaysApplied, TextRendered, Saved, none revisited
C9_Stage(op) ==
    CASE op \in {"alloc", "copy"} -> 1
      [] op \in {"noise", "vignette", "basemap"} -> 2
      [] op \in {"fold", "spots", "rule", "optional", "warning"} -> 3
      [] op \in {"text", "body"} -> 4
      [] op = "save" -> 5
      [] OTHER -> 0

C9_StagesInOrder ==
    \A j \in 1..Len(ops) : \A i \in 1..(j - 1) :
        (C9_Stage(ops[i].op) > 0 /\ C9_Stage(ops[j].op) > 0) =>
            C9_Stage(ops[i].op) <= C9_Stage(ops[j].op)

(***************************************************************************)
(* C10 (as amended): a file is written only after every statement that     *)
(* produces the canvas it holds has run, also when a later statement       *)
(* raises (an optional map overlay that failed is skipped with a warning). *)
(* In the document and map scripts this is the whole pipeline; the         *)
(* template script writes the blank parchment files before the guides and  *)
(* placeholders are drawn on a copy.                                       *)
(***************************************************************************)
\* the canvases whose pixels a canvas holds: base.copy() starts from base
C10_Holds(canvas) == IF canvas = "templ" THEN {"page", "templ"} ELSE {canvas}

\* a statement of the pipeline, as opposed to creating the output
\* directory or writing a file
C10_Renders(k) == Plan(script)[k].op \notin {"save", "mkdir"}

C10_FileAfterItsCanvas ==
    /\ \A n \in 1..Len(files) : \A k \in 1..Len(Plan(script)) :
          (C10_Renders(k) /\ Plan(script)[k].canvas \in C10_Holds(files[n].canvas)) =>
              /\ k <= files[n].after
              /\ k <= Len(ops)
    /\ (script # "template" /\ files # <<>>) =>
          \A k \in 1..Len(Plan(script)) : C10_Renders(k) => k < pc

C10_Witness ==
    /\ status = "raised"
    /\ script = "template"
    /\ Len(files) = 2
    /\ Plan(script)[pc].name = "guides"
    /\ files[2].canvas = "page"
    /\ \A k \in 1..Len(ops) : ops[k].op \notin {"rule", "text"}

\* C10 as stated: a file exists only if every rendering step has completed
C10_NoFileBeforeAllSteps ==
    files # <<>> =>
        \A k \in 1..Len(Plan(script)) : C10_Renders(k) => k < pc

(***************************************************************************)
(* C11: in plot_map every optional overlay (hillshade, transportation,     *)
(* topo, labels) is attempted, in this order, whatever happened to the     *)
(* ones before it; a failed fetch is caught and leaves exactly one warning *)
(* in its place, never an exception out of plot_map; and a run that        *)
(* returns has passed the save step and written the PNG and the PDF.       *)
(***************************************************************************)
C11_Overlays == {k \in 1..Len(PlanMap) : PlanMap[k].op = "optional"}

C11_Warnings == {k \in 1..Len(ops) : ops[k].op = "warning"}

C11_OverlayFailureCaught ==
    script = "map" =>
        /\ \A k \in 1..Len(ops) :
              /\ ops[k].name = PlanMap[k].name
              /\ ops[k].op = "warning" => k \in C11_Overlays
              /\ k \in C11_Overlays => ops[k].op \in {"optional", "warning"}
        /\ status = "raised" => pc \notin C11_Overlays
        /\ (status = "running" /\ C11_Warnings # {}) => ENABLED Next
        /\ status = "done" =>
              /\ C11_Overlays \subseteq 1..Len(ops)
              /\ Len(files) = 2
              /\ files[1].name = "schwarzatal_map.png"
              /\ files[2].name = "schwarzatal_map.pdf"
              /\ files[1].after >= Len(ops) - 2

C11_Witness ==
    /\ script = "map"
    /\ status = "done"
    /\ C11_Warnings = C11_Overlays
    /\ Cardinality(C11_Warnings) = 4
    /\ Len(files) = 2

(***************************************************************************)
(* C12: a failure of a mandatory step ends the run at once.  The run is    *)
(* over exactly when an exception escaped; the statement that raised is    *)
(* the last one reached and nothing is executed after it.  In plot_map a   *)
(* failed geocoding (connection or HTTP error, empty result, missing or    *)
(* malformed bounding box) raises before anything else was done, and a     *)
(* failed imagery base map raises before any overlay, ornament or file.    *)
(* In the document scripts a failure inside make_parchment or of the body  *)
(* text raises out of main before any file was written.                    *)
(***************************************************************************)
C12_ParchmentOrBody == {"alloc", "noise", "vignette", "fold", "spots", "body"}

C12_GeocodeErrors == {"ConnectionError", "HTTPError", "RuntimeError", "ValueError"}

C12_MandatoryFailureStops ==
    /\ (status = "raised") <=> (err # "")
    /\ status = "raised" =>
          /\ Len(ops) = pc - 1
          /\ ~ENABLED Next
          /\ (script = "map" /\ PlanMap[pc].op = "geocode") =>
                /\ err \in C12_GeocodeErrors
                /\ ops = <<>>
                /\ fetches = <<>>
                /\ files = <<>>
          /\ (script = "map" /\ PlanMap[pc].op = "basemap") =>
                /\ \A k \in 1..Len(ops) : ops[k].op \in {"geocode", "alloc", "zoom"}
                /\ Len(fetches) = 1
                /\ files = <<>>
          /\ (script \in C9_Documents /\ Plan(script)[pc].op \in C12_ParchmentOrBody) =>
                files = <<>>

C12_Witness ==
    /\ script = "map"
    /\ status = "raised"
    /\ PlanMap[pc].op = "geocode"
    /\ err = "ValueError"

(***************************************************************************)
(* C13: load_font(size, bold) returns the font of the first entry of the   *)
(* preferred list whose file exists and whose weight is the one asked      *)
(* for, at the size asked for; it never returns a file of the other        *)
(* weight; and when no such file exists it returns the built-in default    *)
(* font.  This holds for every set of font files present on disk.          *)
(***************************************************************************)
C13_Matching ==
    {i \in 1..Len(Preferred(script)) :
        /\ Preferred(script)[i][1] \in fontCall.onDisk
        /\ Preferred(script)[i][2] = fontCall.bold}

C13_FirstMatchingOrDefault ==
    fontResult # NoFont =>
        /\ fontResult.kind \in {"truetype", "default"}
        /\ C13_Matching = {} <=> fontResult = DefaultFont
        /\ fontResult.kind = "truetype" =>
              /\ fontResult.size = fontCall.size
              /\ \E i \in C13_Matching :
                    /\ fontResult.path = Preferred(script)[i][1]
                    /\ \A j \in C13_Matching : i <= j
              /\ \A i \in 1..Len(Preferred(script)) :
                    Preferred(script)[i][1] = fontResult.path =>
                        Preferred(script)[i][2] = fontCall.bold

C13_Witness ==
    /\ fontCall.bold
    /\ fontCall.onDisk = {DejaVuSerif, LiberationSerif}
    /\ fontResult = DefaultFont

(***************************************************************************)
(* C14: for every base channel value b in 0..255 and every perturbation p  *)
(* the noise generator gives, the channel value before blurring is         *)
(* b + p limited to 0..255: the sum fits 16-bit signed integers and        *)
(* saturates at 0 and 255, it does not wrap modulo 256.  This holds in     *)
(* every make_parchment and in add_grain at the strengths 0.07 and 0.08.   *)
(***************************************************************************)
C14_Clamp(v) == IF v < 0 THEN 0 ELSE IF v > 255 THEN 255 ELSE v

C14_Composited == txPc \in {"blur", "text", "done"}

C14_SaturatingSum ==
    C14_Composited =>
        /\ Len(txPixels) = Len(txField)
        /\ \A k \in 1..Len(txPixels) :
              LET b == txCall.base[((k - 1) % 3) + 1]
                  p == txField[k]
              IN  /\ b \in 0..255
                  /\ p \in txCall.low..(txCall.high - 1)
                  /\ b + p \in -32768..32767
                  /\ txPixels[k] = C14_Clamp(b + p)

C14_Witness ==
    /\ txCall.fn = "grain"
    /\ txPc = "done"
    /\ txCall.base[1] + txField[1] > 255
    /\ txPixels[1] = 255
    /\ txCall.base[2] + txField[2] < 0
    /\ txPixels[2] = 0

(***************************************************************************)
(* C15 (as amended): a render requested with a negative canvas width or    *)
(* height fails at once, with the ValueError of the canvas allocation,     *)
(* before any noise is generated or any text is drawn.  A width or height  *)
(* of zero is not rejected before the noise field has been generated, and  *)
(* a width budget of less than one column is no error: the column budget   *)
(* is raised to 20 columns and the text is drawn.                          *)
(***************************************************************************)
C15_Negative == txCall.w < 0 \/ txCall.h < 0

C15_Zero == ~C15_Negative /\ (txCall.w = 0 \/ txCall.h = 0)

\* int(max_width_px / avg) < 1
C15_NoColumn == txCall.budget * AvgDen(BodyFont) < AvgNum(BodyFont)

C15_Parchment == txCall.fn \in Scripts \ {"map"}

C15_NothingDone == txField = <<>> /\ txPixels = <<>> /\ txDrawn = <<>>

C15_NegativeSizeFailsFast ==
    C15_Parchment =>
        /\ C15_Negative =>
              /\ txPc \in {"new", "raised"}
              /\ txPc = "raised" => txErr = "ValueError"
              /\ C15_NothingDone
        /\ txErr = "ValueError" => C15_Negative
        /\ C15_Zero => (txPc = "raised" => txErr = "Exception")
        /\ (C15_Zero /\ txPc = "new") => ENABLED TxNew
        /\ (txPc = "done" /\ C15_NoColumn) =>
              /\ ColsOf(BodyFont, txCall.budget) = MinCols
              /\ txDrawn = Wrap(TokShort, MinCols)
              /\ txDrawn # <<>>

C15_Witness ==
    /\ C15_Parchment
    /\ txCall.w = -1
    /\ txCall.h = 2
    /\ txCall.budget = 0
    /\ txPc = "raised"
    /\ txErr = "ValueError"

\* C15 as first stated: any bad request is rejected before any noise is
\* generated or any text is drawn
C15_InvalidDimensionFailsFast ==
    (C15_Parchment /\ (C15_Negative \/ C15_Zero \/ C15_NoColumn)) =>
        /\ txPc \in {"new", "raised"}
        /\ C15_NothingDone

(***************************************************************************)
(* C16: the noise generator is deterministic.  Two calls with the same     *)
(* seed, width, height, low and high give the same field, whatever calls   *)
(* were made in between; the field has one value per pixel and channel,    *)
(* each at least low and less than high; and the parchment textures made   *)
(* from equal arguments are equal.                                         *)
(***************************************************************************)
C16_Deterministic ==
    /\ \A i \in 1..Len(noiseLog) :
          LET e == noiseLog[i]
          IN  /\ Len(e.field) = FieldSize(e.args.w, e.args.h)
              /\ \A k \in 1..Len(e.field) :
                    e.field[k] >= e.args.low /\ e.field[k] < e.args.high
    /\ \A i \in 1..Len(noiseLog) : \A j \in 1..Len(noiseLog) :
          noiseLog[i].args = noiseLog[j].args =>
              /\ noiseLog[i].field = noiseLog[j].field
              /\ noiseLog[i].texture = noiseLog[j].texture

C16_Witness ==
    /\ Len(noiseLog) = 3
    /\ noiseLog[1].args = noiseLog[3].args
    /\ noiseLog[2].args # noiseLog[1].args
    /\ noiseLog[2].field # noiseLog[1].field

(***************************************************************************)
(* C17: draw_wrapped (drawing line by line) and draw_text_block            *)
(* (collecting, then drawing) produce the same line stream.  For a text,   *)
(* a font and a width budget, either engine returns having made one        *)
(* advance per wrapped line and one per blank paragraph, in the order of   *)
(* the text, the lines being those textwrap.wrap gives at the common       *)
(* column budget; the k-th advance starts k - 1 advances below the start,  *)
(* and only the height of an advance depends on the engine.  Stated for    *)
(* the calls that both engines are given.                                  *)
(***************************************************************************)
RECURSIVE C17_LineStream(_, _, _)
C17_LineStream(ps, c, acc) ==
    IF ps = <<>> THEN acc
    ELSE C17_LineStream(Tail(ps), c,
             IF IsBlank(Head(ps)) THEN Append(acc, <<>>) ELSE acc \o Wrap(Head(ps), c))

C17_Advance ==
    IF UsesTextBlock(script) THEN AdvanceBlock(inp.font, inp.spacingPx)
    ELSE AdvanceWrapped(inp.font, inp.ratio)

\* the calls both engines are given
C17_Common ==
    /\ inp.text \in SmallTexts
    /\ inp.font \in Fonts
    /\ inp.maxWidthPx \in Widths

C17_SameLineStream ==
    (Returned /\ C17_Common) =>
        LET start == BodyStartY
            adv == C17_Advance
            n == Len(stream)
        IN  /\ [k \in 1..n |-> stream[k].line]
                  = C17_LineStream(SplitLines(inp.text), ColsOf(inp.font, inp.maxWidthPx), <<>>)
            /\ \A k \in 1..n :
                  /\ stream[k].top = start + (k - 1) * adv
                  /\ stream[k].line # <<>> => stream[k].drawn
            /\ retY = start + n * adv

C17_Witness ==
    /\ Returned
    /\ UsesTextBlock(script)
    /\ Len(stream) = 3
    /\ stream[1].line # <<>>
    /\ stream[2].line = <<>>
    /\ stream[3].line # <<>>

(***************************************************************************)
(* C18: every add_basemap call of plot_map, the imagery base map and the   *)
(* four overlays alike, is given the same zoom, and that zoom is an        *)
(* integer from 0 to 19, whatever the figure's width in pixels, the        *)
(* bounding box and the buffer are (zero-width boxes and figures of zero   *)
(* pixels included).                                                       *)
(***************************************************************************)
C18_ZoomInRange ==
    script = "map" =>
        /\ \A i \in 1..Len(fetches) :
              /\ fetches[i].zoom \in MinZoom..MaxZoom
              /\ fetches[i].zoom = fetches[1].zoom
              /\ fetches[i].zoom = Zoom(geo)
              /\ fetches[i].source = PlanMap[3 + i].name
        /\ Len(fetches) <= 5

C18_Witness ==
    /\ script = "map"
    /\ Len(fetches) = 5
    /\ geo.maxx = geo.minx
    /\ geo.px = 0

=============================================================================
